---- MODULE Spec2Model ----
\* Model of the patchvendor diff engine of wswcli (src/cmd/patchvendor.go):
\* computeLineDiff / findNextMatchingLine / generateHunks / generateUnifiedDiff /
\* processSingleFile / extractVendorPath.
\*
\* Strings are sequences of tokens.  A line sequence is a sequence of lines;
\* Go's 0-based slice index k is the TLA+ index k+1.  A rendered text (a hunk,
\* a patch) is the sequence of its "\n"-terminated text lines, each a tuple of
\* the pieces Sprintf / WriteString put on it.
EXTENDS Integers, Sequences, FiniteSets, TLC

VARIABLES
    pc,               \* the operation in progress and the position inside it
    sourceLines,      \* computeLineDiff / generateHunks argument
    patchedLines,     \* computeLineDiff / generateHunks argument
    sourceIdx,        \* computeLineDiff local
    patchIdx,         \* computeLineDiff local
    operations,       \* computeLineDiff result, generateHunks argument
    opIdx,            \* generateHunks loop index i (0-based)
    hunkState,        \* generateHunks locals (hunks, currentHunk, counters, inHunk)
    sourcePath,       \* path arguments of generateUnifiedDiff / processSingleFile
    patchedPath,
    sourceContent,    \* content of the source file / sourceContent argument
    patchedContent,   \* content of the patched file / patchedContent argument
    pathSeparator,    \* os.PathSeparator of the build ("/" or "\\")
    fault,            \* which os call of processSingleFile fails, if any
    outputFile,       \* content of the file at outputPath, or NoFile
    result,           \* return value of the operation
    err,              \* error returned by the operation ("nil" when none)
    tree,             \* processDirectories: the source tree in walk order
    walkIdx,          \* processDirectories: entries filepath.Walk has visited
    outputs,          \* processDirectories: the file at each output path
    outputPath,       \* validateInputs argument
    statInfo,         \* validateInputs: what os.Stat finds at the three paths
    blocks,           \* findDuplicateBlocks argument
    fileContent,      \* bs4to5 processFile: content of the file on disk
    dryRun            \* bs4to5: the --dry-run flag

vars == <<pc, sourceLines, patchedLines, sourceIdx, patchIdx, operations,
          opIdx, hunkState, sourcePath, patchedPath, sourceContent,
          patchedContent, pathSeparator, fault, outputFile, result, err,
          tree, walkIdx, outputs, outputPath, statInfo, blocks, fileContent,
          dryRun>>

diffVars == <<sourceLines, patchedLines, sourceIdx, patchIdx, operations, opIdx,
              hunkState>>

fileVars == <<sourcePath, patchedPath, sourceContent, patchedContent,
              pathSeparator, fault, outputFile, result, err>>

dirVars == <<tree, walkIdx, outputs>>

validateVars == <<outputPath, statInfo>>

migrateVars == <<fileContent, dryRun>>

toolVars == <<dirVars, validateVars, blocks, migrateVars>>

-----------------------------------------------------------------------------
\* Bounds of the model

MaxLines == 6
MaxTotalLines == 10
MaxContentLen == 3
MaxPathLen == 7
MaxEntries == 3
MaxExtPathLen == 2
MaxTrimPathLen == 7
MaxBlocks == 4
MaxFileTokens == 3
MaxTailLen == 2
MaxCallLines == 2

\* Program constants

maxLookAhead == 50
contextLines == 3

LineAlphabet == {"a", "b"}
ContentAlphabet == {"a", "\n"}
PathAlphabet == {"/", "\\", "vendor", "x"}

SeqsUpTo(S, n) == UNION {[1..k -> S] : k \in 0..n}

\* The concrete scenarios of the specification, as line sequences.
Scenarios ==
    { << <<"a", "b", "c">>, <<"a", "b", "c">> >>,
      << <<"a", "b", "c">>, <<"a", "x", "c">> >>,
      << <<"a", "b">>,      <<"a", "b", "c">> >> }

\* An input on which a long and a short run of equal lines both stand between
\* changes: source b a a a a b a b, patched a a a a a.
MixedRuns ==
    { << <<"b", "a", "a", "a", "a", "b", "a", "b">>, <<"a", "a", "a", "a", "a">> >> }

-----------------------------------------------------------------------------
\* Helpers of the source

min(a, b) == IF a < b THEN a ELSE b

max(a, b) == IF a > b THEN a ELSE b

\* s[from:] of Go (from is 0-based)
SliceFrom(s, from) == SubSeq(s, from + 1, Len(s))

\* s[from:to] of Go (0-based, to exclusive)
Slice(s, from, to) == SubSeq(s, from + 1, to)

-----------------------------------------------------------------------------
\* findNextMatchingLine

MatchResult(so, po) == [SourceOffset |-> so, PatchOffset |-> po]

\* WindowMatches with the window on the patch side only.
WindowMatches_SourceUnbounded(sLines, pLines) ==
    { m \in (0..(Len(sLines) - 1))
              \X (0..(min(Len(pLines), maxLookAhead) - 1)) :
        sLines[m[1] + 1] = pLines[m[2] + 1] }

\* WindowMatches scanning both slices to their ends.
WindowMatches_WholeSlices(sLines, pLines) ==
    { m \in (0..(Len(sLines) - 1)) \X (0..(Len(pLines) - 1)) :
        sLines[m[1] + 1] = pLines[m[2] + 1] }

\* The pairs (i, j) the nested scan visits whose lines are equal.
WindowMatches(sLines, pLines) ==
    { m \in (0..(min(Len(sLines), maxLookAhead) - 1))
              \X (0..(min(Len(pLines), maxLookAhead) - 1)) :
        sLines[m[1] + 1] = pLines[m[2] + 1] }

\* findNextMatchingLine returning the size of the window when nothing matches.
findNextMatchingLine_WindowSize(sLines, pLines) ==
    LET M == WindowMatches(sLines, pLines) IN
    IF M = {}
    THEN MatchResult(min(Len(sLines), maxLookAhead), min(Len(pLines), maxLookAhead))
    ELSE LET first == CHOOSE m \in M :
                        \A n \in M : m[1] < n[1] \/ (m[1] = n[1] /\ m[2] <= n[2])
         IN MatchResult(first[1], first[2])

findNextMatchingLine(sLines, pLines) ==
    LET M == WindowMatches(sLines, pLines) IN
    IF M = {}
    THEN MatchResult(Len(sLines), Len(pLines))
    ELSE LET first == CHOOSE m \in M :
                        \A n \in M : m[1] < n[1] \/ (m[1] = n[1] /\ m[2] <= n[2])
         IN MatchResult(first[1], first[2])

-----------------------------------------------------------------------------
\* computeLineDiff

DiffOperation(type, ss, sc, ps, pcount, lines) ==
    [Type |-> type, SourceStart |-> ss, SourceCount |-> sc,
     PatchStart |-> ps, PatchCount |-> pcount, Lines |-> lines]

\* EqualRun stopping after one equal line.
EqualRun_OneLine(sLines, pLines, si, pi) ==
    IF si < Len(sLines) /\ pi < Len(pLines) /\ sLines[si + 1] = pLines[pi + 1]
    THEN 1
    ELSE 0

\* Number of iterations of the inner "skip equal lines" loop from (si, pi).
RECURSIVE EqualRun(_, _, _, _)
EqualRun(sLines, pLines, si, pi) ==
    IF si < Len(sLines) /\ pi < Len(pLines) /\ sLines[si + 1] = pLines[pi + 1]
    THEN 1 + EqualRun(sLines, pLines, si + 1, pi + 1)
    ELSE 0

\* DiffLoopCond with && for ||: the loop runs while both cursors are inside.
DiffLoopCond_Both(sLines, pLines, st) ==
    st.sourceIdx < Len(sLines) /\ st.patchIdx < Len(pLines)

\* The outer loop's condition.
DiffLoopCond(sLines, pLines, st) ==
    st.sourceIdx < Len(sLines) \/ st.patchIdx < Len(pLines)

\* DiffEqualPart appending the Equal operation without the test
\* sourceIdx > equalStart.
DiffEqualPart_AlwaysEmit(sLines, pLines, st) ==
    LET equalStart == st.sourceIdx
        equalPatchStart == st.patchIdx
        n == EqualRun(sLines, pLines, st.sourceIdx, st.patchIdx)
        equalLines == Slice(sLines, equalStart, equalStart + n)
    IN [sourceIdx |-> st.sourceIdx + n,
        patchIdx |-> st.patchIdx + n,
        operations |->
            Append(st.operations,
                   DiffOperation("equal", equalStart, Len(equalLines),
                                 equalPatchStart, Len(equalLines), equalLines))]

\* The "equal" part of one iteration of the outer loop.
DiffEqualPart(sLines, pLines, st) ==
    LET equalStart == st.sourceIdx
        equalPatchStart == st.patchIdx
        n == EqualRun(sLines, pLines, st.sourceIdx, st.patchIdx)
        equalLines == Slice(sLines, equalStart, equalStart + n)
    IN [sourceIdx |-> st.sourceIdx + n,
        patchIdx |-> st.patchIdx + n,
        operations |->
            IF st.sourceIdx + n > equalStart
            THEN Append(st.operations,
                        DiffOperation("equal", equalStart, Len(equalLines),
                                      equalPatchStart, Len(equalLines), equalLines))
            ELSE st.operations]

\* DiffDeletePart with the slice's end taken as the offset alone:
\* sourceLines[sourceIdx : nextMatch.SourceOffset].
DiffDeletePart_SliceEnd(sLines, st, nextMatch) ==
    IF nextMatch.SourceOffset > 0
    THEN LET deletedLines == Slice(sLines, st.sourceIdx, nextMatch.SourceOffset)
         IN [st EXCEPT
                !.operations = Append(@, DiffOperation("delete", st.sourceIdx,
                                         Len(deletedLines), st.patchIdx, 0,
                                         deletedLines)),
                !.sourceIdx = @ + nextMatch.SourceOffset]
    ELSE st

\* The "delete" part of the difference handling.
DiffDeletePart(sLines, st, nextMatch) ==
    IF nextMatch.SourceOffset > 0
    THEN LET deletedLines ==
                 Slice(sLines, st.sourceIdx, st.sourceIdx + nextMatch.SourceOffset)
         IN [st EXCEPT
                !.operations = Append(@, DiffOperation("delete", st.sourceIdx,
                                         Len(deletedLines), st.patchIdx, 0,
                                         deletedLines)),
                !.sourceIdx = @ + nextMatch.SourceOffset]
    ELSE st

\* DiffInsertPart recording the source offset of the match instead of the
\* source cursor as SourceStart.
DiffInsertPart_SourceStartOffset(pLines, st, nextMatch) ==
    IF nextMatch.PatchOffset > 0
    THEN LET insertedLines ==
                 Slice(pLines, st.patchIdx, st.patchIdx + nextMatch.PatchOffset)
         IN [st EXCEPT
                !.operations = Append(@, DiffOperation("insert", nextMatch.SourceOffset, 0,
                                         st.patchIdx, Len(insertedLines),
                                         insertedLines)),
                !.patchIdx = @ + nextMatch.PatchOffset]
    ELSE st

\* The "insert" part of the difference handling.
DiffInsertPart(pLines, st, nextMatch) ==
    IF nextMatch.PatchOffset > 0
    THEN LET insertedLines ==
                 Slice(pLines, st.patchIdx, st.patchIdx + nextMatch.PatchOffset)
         IN [st EXCEPT
                !.operations = Append(@, DiffOperation("insert", st.sourceIdx, 0,
                                         st.patchIdx, Len(insertedLines),
                                         insertedLines)),
                !.patchIdx = @ + nextMatch.PatchOffset]
    ELSE st

\* DiffIteration emitting the insert operation before the delete operation.
DiffIteration_InsertFirst(sLines, pLines, st) ==
    LET e == DiffEqualPart(sLines, pLines, st) IN
    IF e.sourceIdx < Len(sLines) \/ e.patchIdx < Len(pLines)
    THEN LET nextMatch == findNextMatchingLine(SliceFrom(sLines, e.sourceIdx),
                                               SliceFrom(pLines, e.patchIdx))
         IN DiffDeletePart(sLines, DiffInsertPart(pLines, e, nextMatch), nextMatch)
    ELSE e

\* One iteration of the outer loop of computeLineDiff.
DiffIteration(sLines, pLines, st) ==
    LET e == DiffEqualPart(sLines, pLines, st) IN
    IF e.sourceIdx < Len(sLines) \/ e.patchIdx < Len(pLines)
    THEN LET nextMatch == findNextMatchingLine(SliceFrom(sLines, e.sourceIdx),
                                               SliceFrom(pLines, e.patchIdx))
         IN DiffInsertPart(pLines, DiffDeletePart(sLines, e, nextMatch), nextMatch)
    ELSE e

DiffStart == [sourceIdx |-> 0, patchIdx |-> 0, operations |-> <<>>]

RECURSIVE DiffLoop(_, _, _)
DiffLoop(sLines, pLines, st) ==
    IF DiffLoopCond(sLines, pLines, st)
    THEN DiffLoop(sLines, pLines, DiffIteration(sLines, pLines, st))
    ELSE st

computeLineDiff(sLines, pLines) == DiffLoop(sLines, pLines, DiffStart).operations

-----------------------------------------------------------------------------
\* generateHunks

\* The text lines written to currentHunk / the hunk header.
ContextLine(line) == <<" ", line>>

DeleteLine(line) == <<"-", line>>

InsertLine(line) == <<"+", line>>

\* HunkHeader printing the 0-based starts.
HunkHeader_ZeroBased(hSourceStart, hSourceCount, hPatchStart, hPatchCount) ==
    <<"@@", hSourceStart, hSourceCount, hPatchStart, hPatchCount>>

\* fmt.Sprintf("@@ -%d,%d +%d,%d @@\n", hunkSourceStart+1, hunkSourceCount,
\*             hunkPatchStart+1, hunkPatchCount)
HunkHeader(hSourceStart, hSourceCount, hPatchStart, hPatchCount) ==
    <<"@@", hSourceStart + 1, hSourceCount, hPatchStart + 1, hPatchCount>>

\* The locals of generateHunks before its loop.
HunkStart ==
    [hunks |-> <<>>, currentHunk |-> <<>>,
     hunkSourceStart |-> 0, hunkPatchStart |-> 0,
     hunkSourceCount |-> 0, hunkPatchCount |-> 0, inHunk |-> FALSE]

\* hunks = append(hunks, hunkHeader+currentHunk.String())
EmitHunk(h) ==
    Append(h.hunks,
           <<HunkHeader(h.hunkSourceStart, h.hunkSourceCount,
                        h.hunkPatchStart, h.hunkPatchCount)>> \o h.currentHunk)

\* ContextToAdd without the limit: contextToAdd := len(op.Lines).
ContextToAdd_NoLimit(op) == Len(op.Lines)

\* contextToAdd := min(contextLines, len(op.Lines))
ContextToAdd(op) == min(contextLines, Len(op.Lines))

\* EqualEndsHunk without the test for the last operation.
EqualEndsHunk_IgnoreLast(ops, op, i) == Len(op.Lines) > contextLines

\* EqualEndsHunk with >= for >.
EqualEndsHunk_OffByOne(ops, op, i) == Len(op.Lines) >= contextLines \/ i = Len(ops) - 1

\* "End hunk if we have enough context or this is the last operation"
EqualEndsHunk(ops, op, i) == Len(op.Lines) > contextLines \/ i = Len(ops) - 1

\* HunkEqual without the test of inHunk: an Equal writes context and ends a
\* hunk whether or not one is in progress.
HunkEqual_NoInHunkTest(ops, h, i) ==
    LET op == ops[i + 1]
        contextToAdd == ContextToAdd(op)
        h1 == [h EXCEPT
                 !.currentHunk =
                     @ \o [j \in 1..contextToAdd |-> ContextLine(op.Lines[j])],
                 !.hunkSourceCount = @ + contextToAdd,
                 !.hunkPatchCount = @ + contextToAdd]
    IN IF EqualEndsHunk(ops, op, i)
       THEN [h1 EXCEPT !.hunks = EmitHunk(h1),
                       !.currentHunk = <<>>,
                       !.inHunk = FALSE]
       ELSE h1

\* case "equal"
HunkEqual(ops, h, i) ==
    LET op == ops[i + 1] IN
    IF h.inHunk
    THEN LET contextToAdd == ContextToAdd(op)
             h1 == [h EXCEPT
                      !.currentHunk =
                          @ \o [j \in 1..contextToAdd |-> ContextLine(op.Lines[j])],
                      !.hunkSourceCount = @ + contextToAdd,
                      !.hunkPatchCount = @ + contextToAdd]
         IN IF EqualEndsHunk(ops, op, i)
            THEN [h1 EXCEPT !.hunks = EmitHunk(h1),
                            !.currentHunk = <<>>,
                            !.inHunk = FALSE]
            ELSE h1
    ELSE h

\* OpenHunk taking the start on the patched side from the source offset.
OpenHunk_PatchStartFromSource(sLines, h, op) ==
    LET contextStart == max(0, op.SourceStart - contextLines)
        contextEnd == op.SourceStart
        last == min(contextEnd, Len(sLines))
        n == IF last > contextStart THEN last - contextStart ELSE 0
    IN [h EXCEPT
          !.hunkSourceStart = max(0, op.SourceStart - contextLines),
          !.hunkPatchStart = max(0, op.SourceStart - contextLines),
          !.hunkSourceCount = n,
          !.hunkPatchCount = n,
          !.currentHunk =
              @ \o [j \in 1..n |-> ContextLine(sLines[contextStart + j])],
          !.inHunk = TRUE]

\* "Start new hunk with context": the body of  if !inHunk { ... }
OpenHunk(sLines, h, op) ==
    LET contextStart == max(0, op.SourceStart - contextLines)
        contextEnd == op.SourceStart
        \* j := contextStart; j < contextEnd && j < len(sourceLines); j++
        last == min(contextEnd, Len(sLines))
        n == IF last > contextStart THEN last - contextStart ELSE 0
    IN [h EXCEPT
          !.hunkSourceStart = max(0, op.SourceStart - contextLines),
          !.hunkPatchStart = max(0, op.PatchStart - contextLines),
          !.hunkSourceCount = n,
          !.hunkPatchCount = n,
          !.currentHunk =
              @ \o [j \in 1..n |-> ContextLine(sLines[contextStart + j])],
          !.inHunk = TRUE]

\* AddChanges writing the lines of a Delete only.
AddChanges_DeleteOnly(h, op) ==
    IF op.Type = "delete"
    THEN [h EXCEPT
            !.currentHunk = @ \o [j \in 1..Len(op.Lines) |-> DeleteLine(op.Lines[j])],
            !.hunkSourceCount = @ + Len(op.Lines)]
    ELSE h

\* "Add the actual changes"
AddChanges(h, op) ==
    IF op.Type = "delete"
    THEN [h EXCEPT
            !.currentHunk = @ \o [j \in 1..Len(op.Lines) |-> DeleteLine(op.Lines[j])],
            !.hunkSourceCount = @ + Len(op.Lines)]
    ELSE [h EXCEPT
            !.currentHunk = @ \o [j \in 1..Len(op.Lines) |-> InsertLine(op.Lines[j])],
            !.hunkPatchCount = @ + Len(op.Lines)]

\* case "delete", "insert"
HunkChange(ops, sLines, h, i) ==
    LET op == ops[i + 1] IN
    AddChanges(IF ~h.inHunk THEN OpenHunk(sLines, h, op) ELSE h, op)

\* One iteration of  for i, op := range operations
HunkIteration(ops, sLines, h, i) ==
    IF ops[i + 1].Type = "equal"
    THEN HunkEqual(ops, h, i)
    ELSE HunkChange(ops, sLines, h, i)

\* HunkFinal without the final block: the hunk in progress is dropped.
HunkFinal_DropOpen(h) == h.hunks

\* "Add final hunk if still in progress"
HunkFinal(h) == IF h.inHunk THEN EmitHunk(h) ELSE h.hunks

RECURSIVE HunkLoop(_, _, _, _)
HunkLoop(ops, sLines, h, i) ==
    IF i < Len(ops)
    THEN HunkLoop(ops, sLines, HunkIteration(ops, sLines, h, i), i + 1)
    ELSE h

generateHunks(ops, sLines, pLines) ==
    IF Len(ops) = 0
    THEN <<>>
    ELSE HunkFinal(HunkLoop(ops, sLines, HunkStart, 0))

-----------------------------------------------------------------------------
\* Strings of the standard library

\* strings.Split(s, sep) for a one-token separator
RECURSIVE Split(_, _)
Split(s, sep) ==
    IF \A k \in 1..Len(s) : s[k] # sep
    THEN <<s>>
    ELSE LET k == CHOOSE k \in 1..Len(s) :
                    s[k] = sep /\ \A l \in 1..(k - 1) : s[l] # sep
         IN <<SubSeq(s, 1, k - 1)>> \o Split(SubSeq(s, k + 1, Len(s)), sep)

\* strings.Join(parts, sep)
RECURSIVE Join(_, _)
Join(parts, sep) ==
    IF Len(parts) = 0 THEN <<>>
    ELSE IF Len(parts) = 1 THEN parts[1]
    ELSE parts[1] \o <<sep>> \o Join(Tail(parts), sep)

\* filepath.ToSlash(path): every os.PathSeparator becomes "/"
ToSlash(path) ==
    IF pathSeparator = "/"
    THEN path
    ELSE [k \in 1..Len(path) |-> IF path[k] = pathSeparator THEN "/" ELSE path[k]]

-----------------------------------------------------------------------------
\* extractVendorPath

\* The loop indexes i at which the loop's condition holds.
VendorHits(parts) ==
    { i \in 0..(Len(parts) - 1) : parts[i + 1] = <<"vendor">> /\ i + 2 < Len(parts) }

\* extractVendorPath returning the path inside the package, parts[i+3:].
extractVendorPath_InsidePackage(fullPath) ==
    LET normalizedPath == ToSlash(fullPath)
        parts == Split(normalizedPath, "/")
        hits == VendorHits(parts)
    IN IF hits # {}
       THEN LET i == CHOOSE i \in hits : \A k \in hits : i <= k
            IN Join(SliceFrom(parts, i + 3), "/")
       ELSE normalizedPath

extractVendorPath(fullPath) ==
    LET normalizedPath == ToSlash(fullPath)
        parts == Split(normalizedPath, "/")
        hits == VendorHits(parts)
    IN IF hits # {}
       THEN LET i == CHOOSE i \in hits : \A k \in hits : i <= k
            IN Join(SliceFrom(parts, i), "/")
       ELSE normalizedPath

-----------------------------------------------------------------------------
\* generateUnifiedDiff

\* fmt.Sprintf("--- a/%s\n", vendorPath) and fmt.Sprintf("+++ b/%s\n", vendorPath)
SourceHeader(vendorPath) == <<"--- a/", vendorPath>>

PatchHeader(vendorPath) == <<"+++ b/", vendorPath>>

\* for _, hunk := range hunks { result.WriteString(hunk) }
RECURSIVE WriteHunks(_)
WriteHunks(hunks) ==
    IF Len(hunks) = 0 THEN <<>> ELSE Head(hunks) \o WriteHunks(Tail(hunks))

\* generateUnifiedDiff taking the "+++" header from the patched path.
generateUnifiedDiff_PatchedHeader(sPath, pPath, sContent, pContent) ==
    LET sLines == Split(sContent, "\n")
        pLines == Split(pContent, "\n")
        diffs == computeLineDiff(sLines, pLines)
        hunks == generateHunks(diffs, sLines, pLines)
    IN <<SourceHeader(extractVendorPath(sPath)), PatchHeader(extractVendorPath(pPath))>>
           \o WriteHunks(hunks)

generateUnifiedDiff(sPath, pPath, sContent, pContent) ==
    LET vendorPath == extractVendorPath(sPath)
        sLines == Split(sContent, "\n")
        pLines == Split(pContent, "\n")
        diffs == computeLineDiff(sLines, pLines)
        hunks == generateHunks(diffs, sLines, pLines)
    IN <<SourceHeader(vendorPath), PatchHeader(vendorPath)>> \o WriteHunks(hunks)

-----------------------------------------------------------------------------
\* processSingleFile

NoFile == [exists |-> FALSE, content |-> <<>>]

File(content) == [exists |-> TRUE, content |-> content]

\* The os call of processSingleFile that fails, if any.
Faults == {"none", "readSource", "readPatched", "create", "write"}

\* The error returned and the file left at outputPath.
processSingleFile(sPath, pPath, sContent, pContent, f) ==
    IF f = "readSource"
    THEN [err |-> "error reading source file", outputFile |-> NoFile]
    ELSE IF f = "readPatched"
    THEN [err |-> "error reading patched file", outputFile |-> NoFile]
    ELSE LET patch == generateUnifiedDiff(sPath, pPath, sContent, pContent) IN
         IF f = "create"
         THEN [err |-> "error creating output file", outputFile |-> NoFile]
         ELSE IF f = "write"
         THEN [err |-> "error writing patch file", outputFile |-> File(<<>>)]
         ELSE [err |-> "nil", outputFile |-> File(patch)]

-----------------------------------------------------------------------------
\* processDirectories

\* filepath.Join(dir, rel) for a clean dir and a clean, non-empty rel
JoinPath(dir, rel) == dir \o <<"/">> \o rel

\* An entry filepath.Walk visits: a directory, or a file of the source tree
\* with the file found at the same relative path of the patched tree.
DirEntry == [isDir |-> TRUE, source |-> <<>>, patched |-> NoFile]

FileEntry(sContent, patched) == [isDir |-> FALSE, source |-> sContent, patched |-> patched]

\* The os call of one walk callback that fails, if any.
WalkFaults == Faults \cup {"lstat", "mkdirAll"}

\* The walk callback: the error it returns and the file it leaves at
\* filepath.Join(outputPath, relPath).
walkFn(sPath, pPath, rel, entry, f) ==
    IF f = "lstat"
    THEN [err |-> "lstat error", outputFile |-> NoFile]
    ELSE IF entry.isDir
    THEN [err |-> "nil", outputFile |-> NoFile]
    ELSE IF ~entry.patched.exists
    THEN [err |-> "nil", outputFile |-> NoFile]
    ELSE IF f = "mkdirAll"
    THEN [err |-> "mkdir error", outputFile |-> NoFile]
    ELSE processSingleFile(JoinPath(sPath, rel), JoinPath(pPath, rel),
                           entry.source, entry.patched.content, f)

-----------------------------------------------------------------------------
\* trimVendorPath, with filepath.Base / filepath.Dir / filepath.Clean

\* strings.Contains(s, ".")
ContainsDot(s) == \E k \in 1..Len(s) : s[k] = "."

\* path with its trailing separators stripped
RECURSIVE StripTrailingSeparators(_)
StripTrailingSeparators(path) ==
    IF Len(path) > 0 /\ path[Len(path)] = "/"
    THEN StripTrailingSeparators(SubSeq(path, 1, Len(path) - 1))
    ELSE path

\* filepath.Base(path)
Base(path) ==
    IF path = <<>>
    THEN <<".">>
    ELSE LET stripped == StripTrailingSeparators(path)
             elems == Split(stripped, "/")
             last == elems[Len(elems)]
         IN IF last = <<>> THEN <<"/">> ELSE last

\* The elements filepath.Clean keeps, given the elements still to read: empty
\* and "." elements are skipped, ".." removes the element before it, stays in
\* front of a relative path and is dropped at the root.
RECURSIVE CleanElements(_, _, _)
CleanElements(elems, out, rooted) ==
    IF Len(elems) = 0
    THEN out
    ELSE LET e == Head(elems)
             rest == Tail(elems)
         IN IF e = <<>> \/ e = <<".">>
            THEN CleanElements(rest, out, rooted)
            ELSE IF e = <<".", ".">>
            THEN IF Len(out) > 0 /\ out[Len(out)] # <<".", ".">>
                 THEN CleanElements(rest, SubSeq(out, 1, Len(out) - 1), rooted)
                 ELSE IF ~rooted
                 THEN CleanElements(rest, Append(out, e), rooted)
                 ELSE CleanElements(rest, out, rooted)
            ELSE CleanElements(rest, Append(out, e), rooted)

\* filepath.Clean(path)
Clean(path) ==
    IF path = <<>>
    THEN <<".">>
    ELSE LET rooted == path[1] = "/"
             out == CleanElements(Split(path, "/"), <<>>, rooted)
         IN IF rooted
            THEN <<"/">> \o Join(out, "/")
            ELSE IF out = <<>> THEN <<".">> ELSE Join(out, "/")

\* filepath.Dir(path): Clean of path up to and including its last separator
Dir(path) ==
    LET seps == { k \in 1..Len(path) : path[k] = "/" }
        i == IF seps = {} THEN 0 ELSE CHOOSE k \in seps : \A l \in seps : l <= k
    IN Clean(SubSeq(path, 1, i))

trimVendorPath(sPath) ==
    LET slashed == ToSlash(sPath)
        normalizedPath == IF ContainsDot(Base(slashed))
                          THEN ToSlash(Dir(slashed))
                          ELSE slashed
        parts == Split(normalizedPath, "/")
        hits == VendorHits(parts)
    IN IF hits # {}
       THEN LET i == CHOOSE i \in hits : \A k \in hits : i <= k
            IN parts[i + 2] \o <<"/">> \o parts[i + 3]
       ELSE sPath

-----------------------------------------------------------------------------
\* validateInputs / validateFileExtensions

\* os.IsPathSeparator(c)
IsPathSeparator(c) == c = "/" \/ c = pathSeparator

\* filepath.Ext(path): the suffix beginning at the final dot in the final
\* element of path, empty when there is no dot.
Ext(path) ==
    LET dots == { k \in 1..Len(path) :
                    /\ path[k] = "."
                    /\ \A l \in k..Len(path) : ~IsPathSeparator(path[l]) }
    IN IF dots = {}
       THEN <<>>
       ELSE SubSeq(path, CHOOSE k \in dots : \A l \in dots : l <= k, Len(path))

\* strings.ToLower(s), on the tokens of the path alphabet
ToLower(s) == [k \in 1..Len(s) |-> IF s[k] = "PHP" THEN "php" ELSE s[k]]

\* validateFileExtensions comparing the extensions as written.
validateFileExtensions_CaseSensitive(sPath, pPath) ==
    IF Ext(sPath) # Ext(pPath)
    THEN "source and patched files have different extensions"
    ELSE "nil"

\* The warnings are printed only; the error depends on the comparison alone.
validateFileExtensions(sPath, pPath) ==
    LET sourceExt == ToLower(Ext(sPath))
        patchedExt == ToLower(Ext(pPath))
    IN IF sourceExt # patchedExt
       THEN "source and patched files have different extensions"
       ELSE "nil"

\* What os.Stat finds at a path: nothing (os.IsNotExist), a file, a directory,
\* or another error.
StatOutcomes == {"missing", "file", "dir", "error"}

\* info.IsDir() of a successful os.Stat
IsDir(stat) == stat = "dir"

validateInputs(sPath, pPath, oPath, stat) ==
    IF stat.source = "missing" THEN "source path does not exist"
    ELSE IF stat.source = "error" THEN "error accessing source path"
    ELSE IF stat.patched = "missing" THEN "patched path does not exist"
    ELSE IF stat.patched = "error" THEN "error accessing patched path"
    ELSE IF IsDir(stat.source) # IsDir(stat.patched)
    THEN "source and patched paths must both be files or both be directories"
    ELSE IF sPath = pPath THEN "source and patched paths cannot be the same"
    ELSE IF oPath = <<>> THEN "output path cannot be empty"
    ELSE IF IsDir(stat.output) THEN "output path exists and is a directory"
    ELSE IF ~IsDir(stat.source) THEN validateFileExtensions(sPath, pPath)
    ELSE "nil"

-----------------------------------------------------------------------------
\* findDuplicateBlocks (src/cmd/twigblocks.go)

\* The block names and file names of the model, each in the order of Go's
\* string comparison.
BlockNames == <<"content", "footer">>

FileNames == <<"file1.twig", "file2.twig">>

\* The position of a string in an ordered list of strings.
Rank(list, str) == CHOOSE k \in 1..Len(list) : list[k] = str

TwigBlock(name, file, line) == [Name |-> name, File |-> file, Line |-> line]

DuplicateGroup(blockName, hash, count, files) ==
    [BlockName |-> blockName, Hash |-> hash, Count |-> count, Files |-> files]

\* fileGroups[file] taken over every file: the grouping by file left out.
FileGroup_AllFiles(bs, file) == bs

\* fileGroups[file]: the blocks of one file, in input order
FileGroup(bs, file) ==
    LET InFile(b) == b.File = file IN SelectSeq(bs, InFile)

\* blockGroups[name]: the blocks of one name among fileBlocks, in order
BlockGroup(fileBlocks, name) ==
    LET Named(b) == b.Name = name IN SelectSeq(fileBlocks, Named)

\* The groups appended to duplicates, in no particular order (map iteration).
UnsortedDuplicates(bs) ==
    LET files == { bs[k].File : k \in 1..Len(bs) }
        names == { bs[k].Name : k \in 1..Len(bs) }
    IN { DuplicateGroup(n, <<"file-", f>>,
                        Len(BlockGroup(FileGroup(bs, f), n)),
                        BlockGroup(FileGroup(bs, f), n)) :
           <<f, n>> \in { fn \in files \X names :
                            Len(BlockGroup(FileGroup(bs, fn[1]), fn[2])) > 1 } }

\* The less function of sort.Slice
DuplicateLess(g, h) ==
    IF g.BlockName = h.BlockName
    THEN Rank(FileNames, g.Files[1].File) < Rank(FileNames, h.Files[1].File)
    ELSE Rank(BlockNames, g.BlockName) < Rank(BlockNames, h.BlockName)

\* sort.Slice(duplicates, less)
RECURSIVE SortDuplicates(_)
SortDuplicates(groups) ==
    IF groups = {}
    THEN <<>>
    ELSE LET g == CHOOSE g \in groups : \A h \in groups : ~DuplicateLess(h, g)
         IN <<g>> \o SortDuplicates(groups \ {g})

findDuplicateBlocks(bs) == SortDuplicates(UnsortedDuplicates(bs))

-----------------------------------------------------------------------------
\* processFile of the Bootstrap migration (src/cmd/bs4to5.go)

BootstrapMigration(pattern, replacement) ==
    [Pattern |-> pattern, Replacement |-> replacement]

\* Three rules of getBootstrapMigrations, in its order: two plain renamings and
\* one whose replacement repeats the matched text and adds a comment.  A
\* content is a sequence of tokens; a literal pattern matches a token.
getBootstrapMigrations ==
    << BootstrapMigration("no-gutters", <<"g-0">>),
       BootstrapMigration("btn-block", <<"d-grid">>),
       BootstrapMigration("breadcrumb-item", <<"breadcrumb-item", "<!-- TODO -->">>) >>

\* migration.Pattern.FindAllString(content, -1)
FindAllString(pattern, content) ==
    LET Matches(token) == token = pattern IN SelectSeq(content, Matches)

\* migration.Pattern.ReplaceAllString(content, replacement)
RECURSIVE ReplaceAllString(_, _, _)
ReplaceAllString(pattern, content, replacement) ==
    IF Len(content) = 0
    THEN <<>>
    ELSE (IF Head(content) = pattern THEN replacement ELSE <<Head(content)>>)
             \o ReplaceAllString(pattern, Tail(content), replacement)

\* The body of  for _, migration := range migrations
ApplyMigration(st, migration) ==
    LET matches == FindAllString(migration.Pattern, st.modifiedContent)
        newContent == ReplaceAllString(migration.Pattern, st.modifiedContent,
                                       migration.Replacement)
    IN IF Len(matches) > 0 /\ newContent # st.modifiedContent
       THEN [modifiedContent |-> newContent, changeCount |-> st.changeCount + Len(matches)]
       ELSE st

RECURSIVE ApplyMigrations(_, _)
ApplyMigrations(st, migrations) ==
    IF Len(migrations) = 0
    THEN st
    ELSE ApplyMigrations(ApplyMigration(st, Head(migrations)), Tail(migrations))

\* ShouldWrite without the dry-run test.
ShouldWrite_IgnoreDryRun(changeCount, dry) == changeCount > 0

\* if changeCount > 0 && !dryRun
ShouldWrite(changeCount, dry) == changeCount > 0 /\ ~dry

\* The os call of processFile that fails, if any.
MigrateFaults == {"none", "readFile", "writeFile"}

\* The contents os.WriteFile can leave behind when it fails: the old content
\* (the open failed) or none (the file was truncated and the write failed).
FailedWriteContents(content) == {content, <<>>}

\* processFile: the count and error it returns and the contents the file can have.
processFile(content, migrations, dry, f) ==
    IF f = "readFile"
    THEN [changeCount |-> 0, err |-> "read error", contents |-> {content}]
    ELSE LET st == ApplyMigrations([modifiedContent |-> content, changeCount |-> 0],
                                   migrations)
         IN IF ShouldWrite(st.changeCount, dry)
            THEN IF f = "writeFile"
                 THEN [changeCount |-> 0, err |-> "error writing file",
                       contents |-> FailedWriteContents(content)]
                 ELSE [changeCount |-> st.changeCount, err |-> "nil",
                       contents |-> {st.modifiedContent}]
            ELSE [changeCount |-> st.changeCount, err |-> "nil", contents |-> {content}]

-----------------------------------------------------------------------------
\* Inputs

LineSeqs == SeqsUpTo(LineAlphabet, MaxLines)

\* The pairs of line sequences the diff engine is run on.
LinePairs == { in \in LineSeqs \X LineSeqs : Len(in[1]) + Len(in[2]) <= MaxTotalLines }

Contents == SeqsUpTo(ContentAlphabet, MaxContentLen)

Paths == SeqsUpTo(PathAlphabet, MaxPathLen)

\* The paths the renderer is run on: x, x/vendor/x, /x/vendor/x/x/x and
\* x\vendor\x\x for the source; x/x and vendor/x/x/x for the patched file.
SourcePaths ==
    { <<"x">>,
      <<"x", "/", "vendor", "/", "x">>,
      <<"/", "x", "/", "vendor", "/", "x", "/", "x", "/", "x">>,
      <<"x", "\\", "vendor", "\\", "x", "\\", "x">> }

PatchedPaths ==
    { <<"x", "/", "x">>,
      <<"vendor", "/", "x", "/", "x", "/", "x">> }

PathSeparators == {"/", "\\"}

\* The paths validateInputs is run on: names with and without extensions,
\* in either case; the output path is empty or a name.
ExtPathAlphabet == {"/", ".", "php", "PHP"}

ExtPaths == SeqsUpTo(ExtPathAlphabet, MaxExtPathLen)

OutputPaths == {<<>>, <<"o">>}

\* The file systems the arguments can meet: one path has one os.Stat outcome,
\* and nothing exists at the empty path.
StatInfos(sPath, pPath, oPath) ==
    { st \in [source : StatOutcomes, patched : StatOutcomes, output : StatOutcomes] :
        /\ sPath = pPath => st.source = st.patched
        /\ sPath = <<>> => st.source = "missing"
        /\ pPath = <<>> => st.patched = "missing"
        /\ oPath = <<>> => st.output = "missing" }

\* The "/"-separated paths trimVendorPath is run on.
TrimPathAlphabet == {"/", ".", "vendor", "x"}

TrimPaths == SeqsUpTo(TrimPathAlphabet, MaxTrimPathLen)

\* The block lists findDuplicateBlocks is run on: the k-th block stands on line k.
BlockLists ==
    UNION { { [k \in 1..n |-> TwigBlock(BlockNames[c[k][1]], FileNames[c[k][2]], k)] :
                c \in [1..n -> (1..Len(BlockNames)) \X (1..Len(FileNames))] } :
            n \in 0..MaxBlocks }

\* The template files processFile is run on.
TemplateTokens == {"no-gutters", "btn-block", "breadcrumb-item", "div"}

Templates == SeqsUpTo(TemplateTokens, MaxFileTokens)

\* The slices findNextMatchingLine is run on: a run of lines found in no other
\* place (none, one short of the window, or the window's length of them)
\* followed by a short tail; the runs of the two slices have no line in common.
PadLengths == {0, maxLookAhead - 1, maxLookAhead}

Pad(line, n) == [k \in 1..n |-> line]

Tails == SeqsUpTo(LineAlphabet, MaxTailLen)

LongSourceLines == { Pad("p", n) \o t : n \in PadLengths, t \in Tails }

LongPatchLines == { Pad("q", n) \o t : n \in PadLengths, t \in Tails }

\* The contents of the files of a tree.
TreeContents == {<<"a">>, <<"b">>}

TreeEntries ==
    {DirEntry} \cup
    { FileEntry(c, p) : c \in TreeContents,
                        p \in {NoFile} \cup {File(d) : d \in TreeContents} }

Trees == SeqsUpTo(TreeEntries, MaxEntries)

\* The relative path of the k-th entry of a tree (distinct for distinct k).
RelPath(k) == [j \in 1..k |-> "x"]

\* The values of the variables an operation does not use.
DiffIdle ==
    /\ sourceLines = <<>>
    /\ patchedLines = <<>>
    /\ sourceIdx = 0
    /\ patchIdx = 0
    /\ operations = <<>>
    /\ opIdx = 0
    /\ hunkState = HunkStart

FileIdle ==
    /\ sourcePath = <<>>
    /\ patchedPath = <<>>
    /\ sourceContent = <<>>
    /\ patchedContent = <<>>
    /\ pathSeparator = "/"
    /\ fault = "none"
    /\ outputFile = NoFile
    /\ result = <<>>
    /\ err = "nil"

DirIdle ==
    /\ tree = <<>>
    /\ walkIdx = 0
    /\ outputs = <<>>

ValidateIdle ==
    /\ outputPath = <<>>
    /\ statInfo = <<>>

TwigIdle == blocks = <<>>

MigrateIdle ==
    /\ fileContent = <<>>
    /\ dryRun = FALSE

ToolsIdle == DirIdle /\ ValidateIdle /\ TwigIdle /\ MigrateIdle

-----------------------------------------------------------------------------
\* The diff engine, one action per loop iteration:
\* computeLineDiff(sourceLines, patchedLines), then generateHunks on its result.

Init ==
    /\ pc = "computeLineDiff"
    /\ \E in \in LinePairs \cup Scenarios \cup MixedRuns :
          /\ sourceLines = in[1]
          /\ patchedLines = in[2]
    /\ sourceIdx = DiffStart.sourceIdx
    /\ patchIdx = DiffStart.patchIdx
    /\ operations = DiffStart.operations
    /\ opIdx = 0
    /\ hunkState = HunkStart
    /\ sourcePath = <<>>
    /\ patchedPath = <<>>
    /\ sourceContent = <<>>
    /\ patchedContent = <<>>
    /\ pathSeparator = "/"
    /\ fault = "none"
    /\ outputFile = NoFile
    /\ result = <<>>
    /\ err = "nil"
    /\ ToolsIdle

DiffState == [sourceIdx |-> sourceIdx, patchIdx |-> patchIdx, operations |-> operations]

\* One iteration of the outer loop of computeLineDiff.
ComputeLineDiffIterate ==
    /\ pc = "computeLineDiff"
    /\ DiffLoopCond(sourceLines, patchedLines, DiffState)
    /\ LET st == DiffIteration(sourceLines, patchedLines, DiffState) IN
          /\ sourceIdx' = st.sourceIdx
          /\ patchIdx' = st.patchIdx
          /\ operations' = st.operations
    /\ UNCHANGED <<toolVars, pc, sourceLines, patchedLines, opIdx, hunkState, fileVars>>

\* The loop ends; computeLineDiff returns and generateHunks is called.
ComputeLineDiffReturn ==
    /\ pc = "computeLineDiff"
    /\ ~DiffLoopCond(sourceLines, patchedLines, DiffState)
    /\ pc' = "generateHunks"
    /\ opIdx' = 0
    /\ hunkState' = HunkStart
    /\ UNCHANGED <<toolVars, sourceLines, patchedLines, sourceIdx, patchIdx, operations, fileVars>>

\* if len(operations) == 0 { return hunks }
GenerateHunksNoOperations ==
    /\ pc = "generateHunks"
    /\ Len(operations) = 0
    /\ pc' = "done"
    /\ result' = <<>>
    /\ UNCHANGED <<toolVars, diffVars, sourcePath, patchedPath, sourceContent, patchedContent,
                   pathSeparator, fault, outputFile, err>>

\* One iteration of the loop of generateHunks, on an "equal" operation.
GenerateHunksEqual ==
    /\ pc = "generateHunks"
    /\ opIdx < Len(operations)
    /\ operations[opIdx + 1].Type = "equal"
    /\ hunkState' = HunkIteration(operations, sourceLines, hunkState, opIdx)
    /\ opIdx' = opIdx + 1
    /\ UNCHANGED <<toolVars, pc, sourceLines, patchedLines, sourceIdx, patchIdx, operations,
                   fileVars>>

\* One iteration of the loop of generateHunks, on a "delete" or "insert" operation.
GenerateHunksChange ==
    /\ pc = "generateHunks"
    /\ opIdx < Len(operations)
    /\ operations[opIdx + 1].Type \in {"delete", "insert"}
    /\ hunkState' = HunkIteration(operations, sourceLines, hunkState, opIdx)
    /\ opIdx' = opIdx + 1
    /\ UNCHANGED <<toolVars, pc, sourceLines, patchedLines, sourceIdx, patchIdx, operations,
                   fileVars>>

\* The loop ends: the hunk in progress is added and generateHunks returns.
GenerateHunksReturn ==
    /\ pc = "generateHunks"
    /\ Len(operations) > 0
    /\ opIdx = Len(operations)
    /\ pc' = "done"
    /\ result' = HunkFinal(hunkState)
    /\ hunkState' = [hunkState EXCEPT !.hunks = HunkFinal(hunkState)]
    /\ UNCHANGED <<toolVars, sourceLines, patchedLines, sourceIdx, patchIdx, operations, opIdx,
                   sourcePath, patchedPath, sourceContent, patchedContent,
                   pathSeparator, fault, outputFile, err>>

Next ==
    \/ ComputeLineDiffIterate
    \/ ComputeLineDiffReturn
    \/ GenerateHunksNoOperations
    \/ GenerateHunksEqual
    \/ GenerateHunksChange
    \/ GenerateHunksReturn

Spec == Init /\ [][Next]_vars

-----------------------------------------------------------------------------
\* The patch renderer and its caller: generateUnifiedDiff and processSingleFile
\* run on a source file and a patched file.

InitRender ==
    /\ pc = "start"
    /\ sourcePath \in SourcePaths
    /\ patchedPath \in PatchedPaths
    /\ sourceContent \in Contents
    /\ patchedContent \in Contents
    /\ pathSeparator \in PathSeparators
    /\ fault = "none"
    /\ outputFile = NoFile
    /\ result = <<>>
    /\ err = "nil"
    /\ ToolsIdle
    /\ sourceLines = <<>>
    /\ patchedLines = <<>>
    /\ sourceIdx = 0
    /\ patchIdx = 0
    /\ operations = <<>>
    /\ opIdx = 0
    /\ hunkState = HunkStart

\* A call of generateUnifiedDiff(sourcePath, patchedPath, sourceContent, patchedContent).
GenerateUnifiedDiff ==
    /\ pc = "start"
    /\ pc' = "generateUnifiedDiff"
    /\ result' = generateUnifiedDiff(sourcePath, patchedPath, sourceContent, patchedContent)
    /\ UNCHANGED <<toolVars, diffVars, sourcePath, patchedPath, sourceContent, patchedContent,
                   pathSeparator, fault, outputFile, err>>

\* A call of processSingleFile(sourcePath, patchedPath, outputPath).
ProcessSingleFile ==
    /\ pc = "start"
    /\ pc' = "processSingleFile"
    /\ \E f \in Faults :
          /\ fault' = f
          /\ LET r == processSingleFile(sourcePath, patchedPath, sourceContent,
                                        patchedContent, f)
             IN /\ err' = r.err
                /\ outputFile' = r.outputFile
    /\ UNCHANGED <<toolVars, diffVars, sourcePath, patchedPath, sourceContent, patchedContent,
                   pathSeparator, result>>

NextRender ==
    \/ GenerateUnifiedDiff
    \/ ProcessSingleFile

SpecRender == InitRender /\ [][NextRender]_vars

-----------------------------------------------------------------------------
\* extractVendorPath on every path of the bounded path language.

InitPath ==
    /\ pc = "start"
    /\ sourcePath \in Paths
    /\ pathSeparator \in PathSeparators
    /\ patchedPath = <<>>
    /\ sourceContent = <<>>
    /\ patchedContent = <<>>
    /\ fault = "none"
    /\ outputFile = NoFile
    /\ result = <<>>
    /\ err = "nil"
    /\ ToolsIdle
    /\ sourceLines = <<>>
    /\ patchedLines = <<>>
    /\ sourceIdx = 0
    /\ patchIdx = 0
    /\ operations = <<>>
    /\ opIdx = 0
    /\ hunkState = HunkStart

\* A call of extractVendorPath(sourcePath).
ExtractVendorPath ==
    /\ pc = "start"
    /\ pc' = "extractVendorPath"
    /\ result' = extractVendorPath(sourcePath)
    /\ UNCHANGED <<toolVars, diffVars, sourcePath, patchedPath, sourceContent, patchedContent,
                   pathSeparator, fault, outputFile, err>>

NextPath == ExtractVendorPath

SpecPath == InitPath /\ [][NextPath]_vars

-----------------------------------------------------------------------------
\* processDirectories(sourcePath, patchedPath, outputPath): filepath.Walk over
\* the source tree, one action per call of the walk callback.

InitDir ==
    /\ pc = "processDirectories"
    /\ tree \in Trees
    /\ walkIdx = 0
    /\ outputs = [k \in 1..Len(tree) |-> NoFile]
    /\ sourcePath = <<"s">>
    /\ patchedPath = <<"p">>
    /\ sourceContent = <<>>
    /\ patchedContent = <<>>
    /\ pathSeparator = "/"
    /\ fault = "none"
    /\ outputFile = NoFile
    /\ result = <<>>
    /\ err = "nil"
    /\ DiffIdle
    /\ ValidateIdle
    /\ TwigIdle
    /\ MigrateIdle

\* One call of the walk callback on entry k with the os calls failing as f
\* says.  A non-nil error ends the walk: filepath.Walk returns it.
WalkStep(k, f) ==
    LET r == walkFn(sourcePath, patchedPath, RelPath(k), tree[k], f) IN
    /\ walkIdx' = k
    /\ fault' = (IF r.err = "nil" THEN "none" ELSE f)
    /\ err' = r.err
    /\ outputs' = [outputs EXCEPT ![k] = r.outputFile]
    /\ pc' = (IF r.err = "nil" THEN pc ELSE "done")
    /\ UNCHANGED <<diffVars, sourcePath, patchedPath, sourceContent, patchedContent,
                   pathSeparator, outputFile, result, tree, validateVars, blocks,
                   migrateVars>>

\* if info.IsDir() { return nil }
WalkDirectory ==
    /\ pc = "processDirectories"
    /\ walkIdx < Len(tree)
    /\ tree[walkIdx + 1].isDir
    /\ \E f \in {"none", "lstat"} : WalkStep(walkIdx + 1, f)

\* "No patched version found for": return nil
WalkNoPatchedVersion ==
    /\ pc = "processDirectories"
    /\ walkIdx < Len(tree)
    /\ ~tree[walkIdx + 1].isDir
    /\ ~tree[walkIdx + 1].patched.exists
    /\ \E f \in {"none", "lstat"} : WalkStep(walkIdx + 1, f)

\* return processSingleFile(path, patchedFile, outputFile)
WalkProcessSingleFile ==
    /\ pc = "processDirectories"
    /\ walkIdx < Len(tree)
    /\ ~tree[walkIdx + 1].isDir
    /\ tree[walkIdx + 1].patched.exists
    /\ \E f \in WalkFaults : WalkStep(walkIdx + 1, f)

\* Every entry has been visited: filepath.Walk returns nil.
WalkReturn ==
    /\ pc = "processDirectories"
    /\ walkIdx = Len(tree)
    /\ pc' = "done"
    /\ UNCHANGED <<diffVars, fileVars, toolVars>>

NextDir ==
    \/ WalkDirectory
    \/ WalkNoPatchedVersion
    \/ WalkProcessSingleFile
    \/ WalkReturn

SpecDir == InitDir /\ [][NextDir]_vars

-----------------------------------------------------------------------------
\* validateInputs(sourcePath, patchedPath, outputPath) on a file system.

InitValidate ==
    /\ pc = "start"
    /\ sourcePath \in ExtPaths
    /\ patchedPath \in ExtPaths
    /\ outputPath \in OutputPaths
    /\ statInfo \in StatInfos(sourcePath, patchedPath, outputPath)
    /\ sourceContent = <<>>
    /\ patchedContent = <<>>
    /\ pathSeparator = "/"
    /\ fault = "none"
    /\ outputFile = NoFile
    /\ result = <<>>
    /\ err = "nil"
    /\ DiffIdle
    /\ DirIdle
    /\ TwigIdle
    /\ MigrateIdle

\* A call of validateInputs(sourcePath, patchedPath, outputPath).
ValidateInputs ==
    /\ pc = "start"
    /\ pc' = "validateInputs"
    /\ err' = validateInputs(sourcePath, patchedPath, outputPath, statInfo)
    /\ UNCHANGED <<diffVars, sourcePath, patchedPath, sourceContent, patchedContent,
                   pathSeparator, fault, outputFile, result, toolVars>>

NextValidate == ValidateInputs

SpecValidate == InitValidate /\ [][NextValidate]_vars

-----------------------------------------------------------------------------
\* trimVendorPath on every path of the bounded "/"-separated path language.

InitTrim ==
    /\ pc = "start"
    /\ sourcePath \in TrimPaths
    /\ patchedPath = <<>>
    /\ sourceContent = <<>>
    /\ patchedContent = <<>>
    /\ pathSeparator = "/"
    /\ fault = "none"
    /\ outputFile = NoFile
    /\ result = <<>>
    /\ err = "nil"
    /\ DiffIdle
    /\ ToolsIdle

\* A call of trimVendorPath(sourcePath).
TrimVendorPath ==
    /\ pc = "start"
    /\ pc' = "trimVendorPath"
    /\ result' = trimVendorPath(sourcePath)
    /\ UNCHANGED <<diffVars, sourcePath, patchedPath, sourceContent, patchedContent,
                   pathSeparator, fault, outputFile, err, toolVars>>

NextTrim == TrimVendorPath

SpecTrim == InitTrim /\ [][NextTrim]_vars

-----------------------------------------------------------------------------
\* findDuplicateBlocks(blocks) on every block list of the bounded language.

InitTwig ==
    /\ pc = "start"
    /\ blocks \in BlockLists
    /\ DiffIdle
    /\ FileIdle
    /\ DirIdle
    /\ ValidateIdle
    /\ MigrateIdle

\* A call of findDuplicateBlocks(blocks).
FindDuplicateBlocks ==
    /\ pc = "start"
    /\ pc' = "findDuplicateBlocks"
    /\ result' = findDuplicateBlocks(blocks)
    /\ UNCHANGED <<diffVars, sourcePath, patchedPath, sourceContent, patchedContent,
                   pathSeparator, fault, outputFile, err, toolVars>>

NextTwig == FindDuplicateBlocks

SpecTwig == InitTwig /\ [][NextTwig]_vars

-----------------------------------------------------------------------------
\* processFile(filename, migrations) of bs4to5 on a template file, with the
\* --dry-run flag set or not.  sourceContent keeps the content the file had
\* before the call.

InitMigrate ==
    /\ pc = "start"
    /\ fileContent \in Templates
    /\ sourceContent = fileContent
    /\ dryRun \in BOOLEAN
    /\ sourcePath = <<>>
    /\ patchedPath = <<>>
    /\ patchedContent = <<>>
    /\ pathSeparator = "/"
    /\ fault = "none"
    /\ outputFile = NoFile
    /\ result = 0
    /\ err = "nil"
    /\ DiffIdle
    /\ DirIdle
    /\ ValidateIdle
    /\ TwigIdle

\* A call of processFile(filename, getBootstrapMigrations()).
ProcessFile ==
    /\ pc = "start"
    /\ pc' = "processFile"
    /\ \E f \in MigrateFaults :
          LET r == processFile(fileContent, getBootstrapMigrations, dryRun, f) IN
          /\ fault' = f
          /\ result' = r.changeCount
          /\ err' = r.err
          /\ fileContent' \in r.contents
    /\ UNCHANGED <<diffVars, sourcePath, patchedPath, sourceContent, patchedContent,
                   pathSeparator, outputFile, dirVars, validateVars, blocks, dryRun>>

NextMigrate == ProcessFile

SpecMigrate == InitMigrate /\ [][NextMigrate]_vars

-----------------------------------------------------------------------------
\* findNextMatchingLine(sourceLines, patchedLines) on slices as long as the
\* lookahead window and longer.

InitMatch ==
    /\ pc = "start"
    /\ sourceLines \in LongSourceLines
    /\ patchedLines \in LongPatchLines
    /\ sourceIdx = 0
    /\ patchIdx = 0
    /\ operations = <<>>
    /\ opIdx = 0
    /\ hunkState = HunkStart
    /\ FileIdle
    /\ ToolsIdle

\* A call of findNextMatchingLine(sourceLines, patchedLines).
FindNextMatchingLine ==
    /\ pc = "start"
    /\ pc' = "findNextMatchingLine"
    /\ result' = findNextMatchingLine(sourceLines, patchedLines)
    /\ UNCHANGED <<diffVars, sourcePath, patchedPath, sourceContent, patchedContent,
                   pathSeparator, fault, outputFile, err, toolVars>>

NextMatch == FindNextMatchingLine

SpecMatch == InitMatch /\ [][NextMatch]_vars

-----------------------------------------------------------------------------
\* The diff engine on sequences as long as the lookahead window and longer:
\* the actions of Spec, started on the long slices.  The loops of
\* computeLineDiff and generateHunks are sequential code, so each enabled step
\* is eventually taken.

InitWindow ==
    /\ pc = "computeLineDiff"
    /\ sourceLines \in LongSourceLines
    /\ patchedLines \in LongPatchLines
    /\ sourceIdx = DiffStart.sourceIdx
    /\ patchIdx = DiffStart.patchIdx
    /\ operations = DiffStart.operations
    /\ opIdx = 0
    /\ hunkState = HunkStart
    /\ FileIdle
    /\ ToolsIdle

SpecWindow == InitWindow /\ [][Next]_vars

-----------------------------------------------------------------------------
\* Runs of the diff engine to their ends, on short sequences, on the scenarios
\* and on two pairs longer than the lookahead window.  The loops of
\* computeLineDiff and generateHunks are sequential code, so a step that can be
\* taken is eventually taken.

\* b a^50 against a b, and a p^50 a against a a: equal lines behind the window.
WindowPairs ==
    { << <<"b">> \o Pad("a", maxLookAhead), <<"a", "b">> >>,
      << <<"a">> \o Pad("p", maxLookAhead) \o <<"a">>, <<"a", "a">> >> }

CallPairs ==
    (SeqsUpTo(LineAlphabet, MaxCallLines) \X SeqsUpTo(LineAlphabet, MaxCallLines))
        \cup Scenarios \cup MixedRuns \cup WindowPairs

InitCall ==
    /\ pc = "computeLineDiff"
    /\ \E in \in CallPairs :
          /\ sourceLines = in[1]
          /\ patchedLines = in[2]
    /\ sourceIdx = DiffStart.sourceIdx
    /\ patchIdx = DiffStart.patchIdx
    /\ operations = DiffStart.operations
    /\ opIdx = 0
    /\ hunkState = HunkStart
    /\ FileIdle
    /\ ToolsIdle

SpecCall == InitCall /\ [][Next]_vars /\ WF_vars(Next)

-----------------------------------------------------------------------------
\* Vocabulary of the properties

\* The header fields of a hunk  @@ -A,B +C,D @@  and its body lines.
HunkA(hunk) == hunk[1][2]

HunkB(hunk) == hunk[1][3]

HunkC(hunk) == hunk[1][4]

HunkD(hunk) == hunk[1][5]

HunkBody(hunk) == Tail(hunk)

IsSourceSideLine(textLine) == textLine[1] \in {" ", "-"}

IsPatchSideLine(textLine) == textLine[1] \in {" ", "+"}

\* The lines (without their prefix) of a sequence of body lines.
LinesOf(textLines) == [k \in 1..Len(textLines) |-> textLines[k][2]]

IsSourceSideOp(op) == op.Type \in {"equal", "delete"}

IsPatchSideOp(op) == op.Type \in {"equal", "insert"}

\* The concatenation of the Lines of a sequence of operations.
RECURSIVE ConcatLines(_)
ConcatLines(ops) ==
    IF Len(ops) = 0 THEN <<>> ELSE Head(ops).Lines \o ConcatLines(Tail(ops))

SourceSide(ops) == ConcatLines(SelectSeq(ops, IsSourceSideOp))

PatchSide(ops) == ConcatLines(SelectSeq(ops, IsPatchSideOp))

\* The number of context lines a body starts with / ends with.
RECURSIVE LeadingContext(_)
LeadingContext(body) ==
    IF Len(body) > 0 /\ body[1][1] = " "
    THEN 1 + LeadingContext(Tail(body))
    ELSE 0

RECURSIVE TrailingContext(_)
TrailingContext(body) ==
    IF Len(body) > 0 /\ body[Len(body)][1] = " "
    THEN 1 + TrailingContext(SubSeq(body, 1, Len(body) - 1))
    ELSE 0

OpTypes(ops) == {ops[k].Type : k \in 1..Len(ops)}

-----------------------------------------------------------------------------
\* C1 (Reconstruction): at every step of computeLineDiff the operations emitted
\* so far reconstruct source[0..sourceIdx) on their source side (Equal + Delete)
\* and patched[0..patchIdx) on their patch side (Equal + Insert); once the loop
\* has ended both cursors are at the ends, so the result reconstructs both inputs.
C1_Reconstruction ==
    /\ SourceSide(operations) = Slice(sourceLines, 0, sourceIdx)
    /\ PatchSide(operations) = Slice(patchedLines, 0, patchIdx)
    /\ pc # "computeLineDiff" =>
          /\ sourceIdx = Len(sourceLines)
          /\ patchIdx = Len(patchedLines)
          /\ SourceSide(operations) = sourceLines
          /\ PatchSide(operations) = patchedLines

C1_Witness ==
    /\ pc = "generateHunks"
    /\ OpTypes(operations) = {"equal", "delete", "insert"}
    /\ Len(operations) >= 5

\* C2 (Non-overlap): the source ranges [A, A+B) of any two distinct hunks of one
\* diff are disjoint.
C2_NoOverlap ==
    pc = "done" =>
        \A k, l \in 1..Len(result) :
            k < l =>
                \/ HunkA(result[k]) + HunkB(result[k]) <= HunkA(result[l])
                \/ HunkA(result[l]) + HunkB(result[l]) <= HunkA(result[k])

\* C3 (Header semantics): in every hunk header @@ -A,B +C,D @@, B is the number
\* of ' ' and '-' body lines and D the number of ' ' and '+' body lines, the
\* ' ' and '-' lines are source lines A..A+B-1 and the ' ' and '+' lines are
\* patched lines C..C+D-1 (1-based); source [a,b], patched [a,b,c] gives one
\* hunk with counts -1,2 +1,3.
C3_HeaderSemantics ==
    pc = "done" =>
        /\ \A k \in 1..Len(result) :
              LET hunk == result[k]
                  srcSide == SelectSeq(HunkBody(hunk), IsSourceSideLine)
                  patSide == SelectSeq(HunkBody(hunk), IsPatchSideLine)
              IN /\ HunkB(hunk) = Len(srcSide)
                 /\ HunkD(hunk) = Len(patSide)
                 /\ HunkA(hunk) >= 1
                 /\ HunkC(hunk) >= 1
                 /\ HunkA(hunk) + HunkB(hunk) - 1 <= Len(sourceLines)
                 /\ HunkC(hunk) + HunkD(hunk) - 1 <= Len(patchedLines)
                 /\ LinesOf(srcSide) =
                        SubSeq(sourceLines, HunkA(hunk), HunkA(hunk) + HunkB(hunk) - 1)
                 /\ LinesOf(patSide) =
                        SubSeq(patchedLines, HunkC(hunk), HunkC(hunk) + HunkD(hunk) - 1)
        /\ (sourceLines = <<"a", "b">> /\ patchedLines = <<"a", "b", "c">>) =>
              /\ Len(result) = 1
              /\ result[1][1] = <<"@@", 1, 2, 1, 3>>
              /\ HunkBody(result[1]) = <<ContextLine("a"), ContextLine("b"), InsertLine("c")>>

\* A pure-insert hunk and a pure-delete hunk, each with context, have been produced.
C3_Witness ==
    /\ pc = "done"
    /\ \E k \in 1..Len(result) :
          /\ \A j \in 1..Len(HunkBody(result[k])) : HunkBody(result[k])[j][1] # "-"
          /\ HunkB(result[k]) > 0
          /\ HunkD(result[k]) > HunkB(result[k])
          /\ HunkA(result[k]) > 1
    /\ \E k \in 1..Len(result) :
          /\ \A j \in 1..Len(HunkBody(result[k])) : HunkBody(result[k])[j][1] # "+"
          /\ HunkD(result[k]) > 0
          /\ HunkB(result[k]) > HunkD(result[k])

\* C8 (Context bound): no hunk has more than 3 context lines before its first
\* changed line or more than 3 context lines after its last changed line.  It
\* holds of every hunk as soon as it is emitted.
C8_ContextBound ==
    \A k \in 1..Len(hunkState.hunks) :
        /\ LeadingContext(HunkBody(hunkState.hunks[k])) <= 3
        /\ TrailingContext(HunkBody(hunkState.hunks[k])) <= 3

\* Both limits have cut a longer equal run: one hunk has 3 leading context lines
\* and does not start at source line 1, one hunk has 3 trailing context lines and
\* does not reach the last source line.
C8_Witness ==
    /\ pc = "done"
    /\ \E k \in 1..Len(result) :
          /\ LeadingContext(HunkBody(result[k])) = 3
          /\ HunkA(result[k]) > 1
    /\ \E k \in 1..Len(result) :
          /\ TrailingContext(HunkBody(result[k])) = 3
          /\ HunkA(result[k]) + HunkB(result[k]) - 1 < Len(sourceLines)

\* C9 (Increasing starts): for consecutive hunks of one diff the later hunk's
\* source start A and patched start C are both strictly greater than those of
\* the earlier hunk.
C9_StartsIncrease ==
    \A k \in 1..(Len(hunkState.hunks) - 1) :
        /\ HunkA(hunkState.hunks[k + 1]) > HunkA(hunkState.hunks[k])
        /\ HunkC(hunkState.hunks[k + 1]) > HunkC(hunkState.hunks[k])

C9_Witness ==
    /\ pc = "done"
    /\ Len(result) >= 2

-----------------------------------------------------------------------------
\* The positions (1-based) of the segments literally named "vendor".
VendorSegments(parts) == { k \in 1..Len(parts) : parts[k] = <<"vendor">> }

FirstOf(S) == CHOOSE k \in S : \A l \in S : k <= l

\* C4 (No patch for identical contents): generateUnifiedDiff returns the empty
\* string whenever the source content and the patched content are identical.
C4_IdenticalGivesEmpty ==
    (pc = "generateUnifiedDiff" /\ sourceContent = patchedContent) => result = <<>>

\* C5 (No-Difference): when the source and the patched file have identical,
\* non-empty contents, processSingleFile returns the error "source and patched
\* files do not have different content" and writes no patch file.
C5_NoDifferenceError ==
    (/\ pc = "processSingleFile"
     /\ fault = "none"
     /\ sourceContent = patchedContent
     /\ sourceContent # <<>>)
    => /\ err = "source and patched files do not have different content"
       /\ outputFile = NoFile

\* C6 (Degenerate-Source): when the source content is empty and the patched
\* content is not, processSingleFile returns the error "source file is empty"
\* and produces no output file.
C6_EmptySourceError ==
    (/\ pc = "processSingleFile"
     /\ fault = "none"
     /\ sourceContent = <<>>
     /\ patchedContent # <<>>)
    => /\ err = "source file is empty"
       /\ outputFile = NoFile

\* The path with every platform separator written as "/": the form whose
\* "/"-separated segments the header path is made of.
Normalized(path) ==
    [k \in 1..Len(path) |-> IF path[k] = pathSeparator THEN "/" ELSE path[k]]

C10_PatchText ==
    (pc = "generateUnifiedDiff" /\ sourceContent # patchedContent) =>
        LET P == extractVendorPath(sourcePath)
            sLines == Split(sourceContent, "\n")
            pLines == Split(patchedContent, "\n")
            hunks == generateHunks(computeLineDiff(sLines, pLines), sLines, pLines)
        IN /\ Len(result) >= 3
           /\ result[1] = <<"--- a/", P>>
           /\ result[2] = <<"+++ b/", P>>
           /\ SubSeq(result, 3, Len(result)) = WriteHunks(hunks)
           /\ result[3][1] = "@@"
           /\ \A other \in PatchedPaths :
                 generateUnifiedDiff(sourcePath, other, sourceContent, patchedContent)
                     = result

\* A patch with two header lines on a rewritten path and at least one hunk.
C10_Witness ==
    /\ pc = "generateUnifiedDiff"
    /\ sourceContent # patchedContent
    /\ Len(result) > 3
    /\ result[1][2] # sourcePath
    /\ result[1][2] # extractVendorPath(patchedPath)

-----------------------------------------------------------------------------
\* C11 (Scenario 2): for source lines [a,b,c] and patched lines [a,x,c] the
\* engine produces exactly one hunk, with header @@ -1,3 +1,3 @@ and the body
\* lines ' a', '-b', '+x', ' c' in that order.
C11_ScenarioReplace ==
    (/\ pc = "done"
     /\ sourceLines = <<"a", "b", "c">>
     /\ patchedLines = <<"a", "x", "c">>)
    => result = << << <<"@@", 1, 3, 1, 3>>,
                      <<" ", "a">>, <<"-", "b">>, <<"+", "x">>, <<" ", "c">> >> >>

C11_Witness ==
    /\ pc = "done"
    /\ sourceLines = <<"a", "b", "c">>
    /\ patchedLines = <<"a", "x", "c">>
    /\ Len(result) = 1
    /\ Len(operations) = 4

-----------------------------------------------------------------------------
\* Vocabulary of the directory properties

\* A file pair whose contents differ / are identical.
PairDiffers(entry) ==
    ~entry.isDir /\ entry.patched.exists /\ entry.patched.content # entry.source

PairIdentical(entry) ==
    ~entry.isDir /\ entry.patched.exists /\ entry.patched.content = entry.source

\* C12 (Directory mode): when the walk over a tree holding both a differing
\* pair and an identical pair has returned with no os call failing, the error
\* is non-nil and a patch file exists at the output path of every differing
\* pair, wherever the pairs stand in the walk order.
C12_DirectoryMode ==
    (/\ pc = "done"
     /\ tree # <<>>
     /\ fault = "none"
     /\ \E k \in 1..Len(tree) : PairDiffers(tree[k])
     /\ \E k \in 1..Len(tree) : PairIdentical(tree[k]))
    => /\ err # "nil"
       /\ \A k \in 1..Len(tree) : PairDiffers(tree[k]) => outputs[k].exists

\* C13 (Path inside the package): with the path's separators normalised to "/",
\* when the first "vendor" segment is followed by a provider, a package and at
\* least one more segment, extractVendorPath returns only the segments after
\* the package, joined by "/"; for a path without a "vendor" segment it returns
\* the path unchanged.
C13_InsidePackage ==
    pc = "extractVendorPath" =>
        LET parts == Split(Normalized(sourcePath), "/")
            V == VendorSegments(parts)
        IN /\ (V # {} /\ FirstOf(V) + 3 <= Len(parts))
                => result = Join(SubSeq(parts, FirstOf(V) + 3, Len(parts)), "/")
           /\ V = {} => result = Normalized(sourcePath)

-----------------------------------------------------------------------------
\* Vocabulary of the validation properties

\* The conditions of a valid input, as the file system shows them.
SourceExists == statInfo.source \in {"file", "dir"}

PatchedExists == statInfo.patched \in {"file", "dir"}

SameKind == (statInfo.source = "dir") <=> (statInfo.patched = "dir")

OutputIsDirectory == statInfo.output = "dir"

\* The extension of a path in lower case: the tokens from the last "." of the
\* last element on, "PHP" written as "php".
LowerExt(path) ==
    LET elem == Split(path, "/")[Len(Split(path, "/"))]
        dots == { k \in 1..Len(elem) : elem[k] = "." }
    IN IF dots = {}
       THEN <<>>
       ELSE LET d == CHOOSE k \in dots : \A l \in dots : l <= k
            IN [k \in 1..(Len(elem) - d + 1) |->
                    IF elem[d + k - 1] = "PHP" THEN "php" ELSE elem[d + k - 1]]

ExtensionsAgree == statInfo.source = "file" => LowerExt(sourcePath) = LowerExt(patchedPath)

-----------------------------------------------------------------------------
\* The "/"-separated segments of a path, without the final segment when that
\* segment contains "." (a file name).
DirectorySegments(path) ==
    LET segs == Split(path, "/")
    IN IF ContainsDot(segs[Len(segs)]) THEN SubSeq(segs, 1, Len(segs) - 1) ELSE segs

\* C15 (Provider and package): when, the final file-name segment dropped, a
\* "vendor" segment is followed by at least two directory segments,
\* trimVendorPath returns the two segments after the first "vendor" segment
\* joined by "/"; for every other path it returns the input exactly as given.
C15_TrimVendorPath ==
    pc = "trimVendorPath" =>
        LET P == DirectorySegments(sourcePath)
            V == VendorSegments(P)
        IN IF \E k \in V : k + 2 <= Len(P) /\ P[k + 1] # <<>> /\ P[k + 2] # <<>>
           THEN result = P[FirstOf(V) + 1] \o <<"/">> \o P[FirstOf(V) + 2]
           ELSE result = sourcePath

-----------------------------------------------------------------------------
\* The positions of the blocks of one file and one name in the input.
Occurrences(file, name) ==
    { k \in 1..Len(blocks) : blocks[k].File = file /\ blocks[k].Name = name }

\* The positions of the groups of the result made for one file and one name.
GroupsOf(file, name) ==
    { i \in 1..Len(result) :
        /\ result[i].BlockName = name
        /\ \E j \in 1..Len(result[i].Files) : result[i].Files[j].File = file }

AllFileNames == { FileNames[k] : k \in 1..Len(FileNames) }

AllBlockNames == { BlockNames[k] : k \in 1..Len(BlockNames) }

-----------------------------------------------------------------------------
\* The tokens of a content that some migration rule matches.
MigratableTokens(content) ==
    { k \in 1..Len(content) :
        \E i \in 1..Len(getBootstrapMigrations) :
            content[k] = getBootstrapMigrations[i].Pattern }

\* C17 (Dry run): with dry-run on, processFile leaves the content of the file
\* as it was and, the read succeeding, returns the number of changes it would
\* make; the content of the file differs after the call only when dry-run is
\* off and at least one change was counted.
C17_DryRun ==
    pc = "processFile" =>
        /\ dryRun => fileContent = sourceContent
        /\ (dryRun /\ err = "nil")
              => result = Cardinality(MigratableTokens(sourceContent))
        /\ fileContent # sourceContent
              => ~dryRun /\ Cardinality(MigratableTokens(sourceContent)) > 0

\* A dry run on a file with two changes to make reports them and leaves the
\* file alone.
C17_Witness ==
    /\ pc = "processFile"
    /\ dryRun
    /\ err = "nil"
    /\ result = 2
    /\ fileContent = sourceContent
    /\ Len(fileContent) = 3

-----------------------------------------------------------------------------
\* (i, j) is a pair of equal lines inside the lookahead window (0-based).
EqualInWindow(i, j) ==
    /\ i < Len(sourceLines) /\ i < 50
    /\ j < Len(patchedLines) /\ j < 50
    /\ sourceLines[i + 1] = patchedLines[j + 1]

WindowIndexes == 0..49

\* C18 (First match): when a pair of equal lines exists inside the window,
\* findNextMatchingLine returns such a pair, no pair of the window has a
\* smaller source offset, and no pair with the same source offset has a smaller
\* patch offset; a returned pair of equal lines never has an offset of 50 or
\* more.
C18_FirstMatch ==
    pc = "findNextMatchingLine" =>
        /\ (\E i, j \in WindowIndexes : EqualInWindow(i, j))
              => /\ EqualInWindow(result.SourceOffset, result.PatchOffset)
                 /\ \A i, j \in WindowIndexes :
                       EqualInWindow(i, j)
                           => \/ result.SourceOffset < i
                              \/ (result.SourceOffset = i /\ result.PatchOffset <= j)
        /\ (/\ result.SourceOffset < Len(sourceLines)
            /\ result.PatchOffset < Len(patchedLines)
            /\ sourceLines[result.SourceOffset + 1] = patchedLines[result.PatchOffset + 1])
              => result.SourceOffset < 50 /\ result.PatchOffset < 50

\* The pair returned lies at the last source offset of the window, although a
\* pair of equal lines with a smaller patch offset lies just behind the window.
C18_Witness ==
    /\ pc = "findNextMatchingLine"
    /\ result.SourceOffset = 49
    /\ result.PatchOffset = 1
    /\ Len(sourceLines) > 50
    /\ sourceLines[51] = patchedLines[1]

\* C19 (No match): when no pair of equal lines exists inside the window,
\* findNextMatchingLine returns the full lengths of the two slices, whether or
\* not they exceed the window and also when a slice is empty.
C19_NoMatch ==
    pc = "findNextMatchingLine" =>
        ((\A i, j \in WindowIndexes : ~EqualInWindow(i, j))
            => /\ result.SourceOffset = Len(sourceLines)
               /\ result.PatchOffset = Len(patchedLines))

\* Nothing matches a source slice longer than the window against an empty
\* patch slice: the lengths returned are 52 and 0.
C19_Witness ==
    /\ pc = "findNextMatchingLine"
    /\ patchedLines = <<>>
    /\ Len(sourceLines) = 52
    /\ result = MatchResult(52, 0)

-----------------------------------------------------------------------------
\* The operation the loop of generateHunks is about to handle.
ArrivingOp == operations[opIdx + 1]

\* An equal operation / a change arrives in this step of generateHunks.
EqualArrives ==
    /\ pc = "generateHunks"
    /\ opIdx < Len(operations)
    /\ ArrivingOp.Type = "equal"
    /\ opIdx' = opIdx + 1

ChangeArrives ==
    /\ pc = "generateHunks"
    /\ opIdx < Len(operations)
    /\ ArrivingOp.Type \in {"delete", "insert"}
    /\ opIdx' = opIdx + 1

\* The first n lines of an operation as context lines / its lines as changes.
AsContext(op, n) == [j \in 1..n |-> <<" ", op.Lines[j]>>]

AsChange(op) ==
    [j \in 1..Len(op.Lines) |-> <<IF op.Type = "delete" THEN "-" ELSE "+", op.Lines[j]>>]

\* C20 (Equal in an open hunk): in every step of generateHunks in which an
\* equal operation arrives while a hunk is open, either the operation has at
\* most 3 lines and is not the last one, and then the hunk stays open, no hunk
\* is emitted and all its lines are appended as context; or it has more than 3
\* lines or is the last one, and then one hunk is emitted whose body is the
\* open hunk followed by at most the first 3 lines as context, and no hunk is
\* open afterwards.  A change arriving while a hunk is open is appended to that
\* hunk; a change arriving while none is open starts a new one, made of at
\* most 3 context lines and the change.
C20_EqualInOpenHunk ==
    [][ /\ (EqualArrives /\ hunkState.inHunk)
            => IF Len(ArrivingOp.Lines) <= 3 /\ opIdx + 1 # Len(operations)
               THEN /\ hunkState'.inHunk
                    /\ hunkState'.hunks = hunkState.hunks
                    /\ hunkState'.currentHunk =
                           hunkState.currentHunk
                               \o AsContext(ArrivingOp, Len(ArrivingOp.Lines))
               ELSE /\ ~hunkState'.inHunk
                    /\ Len(hunkState'.hunks) = Len(hunkState.hunks) + 1
                    /\ SubSeq(hunkState'.hunks, 1, Len(hunkState.hunks)) = hunkState.hunks
                    /\ \E n \in 0..3 :
                          /\ n <= Len(ArrivingOp.Lines)
                          /\ n = 3 \/ n = Len(ArrivingOp.Lines)
                          /\ HunkBody(hunkState'.hunks[Len(hunkState'.hunks)]) =
                                 hunkState.currentHunk \o AsContext(ArrivingOp, n)
        /\ (ChangeArrives /\ hunkState.inHunk)
            => /\ hunkState'.inHunk
               /\ hunkState'.hunks = hunkState.hunks
               /\ hunkState'.currentHunk = hunkState.currentHunk \o AsChange(ArrivingOp)
        /\ (ChangeArrives /\ ~hunkState.inHunk)
            => /\ hunkState'.inHunk
               /\ hunkState'.hunks = hunkState.hunks
               /\ \E n \in 0..3 :
                     /\ Len(hunkState'.currentHunk) = n + Len(ArrivingOp.Lines)
                     /\ \A j \in 1..n : hunkState'.currentHunk[j][1] = " "
                     /\ SubSeq(hunkState'.currentHunk, n + 1, n + Len(ArrivingOp.Lines))
                            = AsChange(ArrivingOp)
      ]_vars

\* Both cases have happened in one run: a run of four equal lines closed the
\* first hunk and the next change opened a second one, in which a run of one
\* equal line stands as context between two changes.
C20_Witness ==
    /\ pc = "done"
    /\ Len(result) = 2
    /\ TrailingContext(HunkBody(result[1])) = 3
    /\ \E k \in 2..(Len(HunkBody(result[2])) - 1) :
          /\ HunkBody(result[2])[k][1] = " "
          /\ HunkBody(result[2])[k - 1][1] = "-"
          /\ HunkBody(result[2])[k + 1][1] = "-"

-----------------------------------------------------------------------------
\* The kinds of the operations emitted so far, in order.
KindAt(k) == operations[k].Type

\* C21 (Maximal operations): at every point of computeLineDiff and after it, no
\* two adjacent operations have the same kind, and an Insert is never directly
\* followed by a Delete; so between two Equal operations there is at most one
\* Delete followed by at most one Insert.
C21_MaximalOperations ==
    \A k \in 1..(Len(operations) - 1) :
        /\ KindAt(k) # KindAt(k + 1)
        /\ ~(KindAt(k) = "insert" /\ KindAt(k + 1) = "delete")

\* A Delete directly followed by an Insert stands between two Equal operations.
C21_Witness ==
    /\ pc = "generateHunks"
    /\ \E k \in 1..(Len(operations) - 3) :
          /\ KindAt(k) = "equal"
          /\ KindAt(k + 1) = "delete"
          /\ KindAt(k + 2) = "insert"
          /\ KindAt(k + 3) = "equal"

\* C22 (Offset order): the first operation starts at source offset 0 and patch
\* offset 0, each operation starts where its predecessor ends on both sides,
\* an Insert has SourceCount 0, a Delete has PatchCount 0, an Equal has equal
\* counts, and the number of Lines is the non-zero count.
C22_OffsetOrder ==
    /\ Len(operations) > 0 =>
          operations[1].SourceStart = 0 /\ operations[1].PatchStart = 0
    /\ \A k \in 1..(Len(operations) - 1) :
          /\ operations[k + 1].SourceStart =
                 operations[k].SourceStart + operations[k].SourceCount
          /\ operations[k + 1].PatchStart =
                 operations[k].PatchStart + operations[k].PatchCount
    /\ \A k \in 1..Len(operations) :
          LET op == operations[k] IN
          /\ op.Type = "insert" =>
                op.SourceCount = 0 /\ Len(op.Lines) = op.PatchCount
          /\ op.Type = "delete" =>
                op.PatchCount = 0 /\ Len(op.Lines) = op.SourceCount
          /\ op.Type = "equal" =>
                op.SourceCount = op.PatchCount /\ Len(op.Lines) = op.SourceCount

\* An Insert that follows a Delete starts behind the deleted lines on the
\* source side, and an operation follows it.
C22_Witness ==
    /\ pc = "generateHunks"
    /\ \E k \in 2..(Len(operations) - 1) :
          /\ operations[k].Type = "insert"
          /\ operations[k - 1].Type = "delete"
          /\ operations[k].SourceStart > operations[k - 1].SourceStart
          /\ operations[k].PatchStart > 0

\* C23 (No zero-length operation): every operation emitted covers at least one
\* line: its Lines are non-empty, an Equal and a Delete have SourceCount >= 1,
\* an Equal and an Insert have PatchCount >= 1; with two empty sequences no
\* operation is emitted at all.
C23_NoZeroLength ==
    /\ \A k \in 1..Len(operations) :
          LET op == operations[k] IN
          /\ Len(op.Lines) >= 1
          /\ op.Type \in {"equal", "delete"} => op.SourceCount >= 1
          /\ op.Type \in {"equal", "insert"} => op.PatchCount >= 1
    /\ (sourceLines = <<>> /\ patchedLines = <<>>) => operations = <<>>

\* The source is empty: the matcher returns a source offset of 0 and the only
\* operation is the Insert of the whole patch.
C23_Witness ==
    /\ pc = "generateHunks"
    /\ sourceLines = <<>>
    /\ Len(operations) = 1
    /\ operations[1].Type = "insert"
    /\ operations[1].PatchCount = Len(patchedLines)

-----------------------------------------------------------------------------
\* Both cursors of computeLineDiff are at the ends of their sequences.
CursorsAtEnds == sourceIdx = Len(sourceLines) /\ patchIdx = Len(patchedLines)

\* What the matcher returns behind the equal scan of the iteration about to run.
MatchAfterEqualScan ==
    LET e == DiffEqualPart(sourceLines, patchedLines, DiffState)
    IN findNextMatchingLine(SliceFrom(sourceLines, e.sourceIdx),
                            SliceFrom(patchedLines, e.patchIdx))

\* A step of the diff engine keeps the cursors inside the sequences, an
\* iteration of the outer loop moves no cursor back and at least one forward,
\* the matcher does not return (0,0) when the equal scan has stopped before
\* the ends, and the loop is left only with both cursors at the ends.
LoopAdvances ==
    /\ sourceIdx' <= Len(sourceLines')
    /\ patchIdx' <= Len(patchedLines')
    /\ (pc = "computeLineDiff" /\ ~CursorsAtEnds)
          => LET e == DiffEqualPart(sourceLines, patchedLines, DiffState)
             IN (e.sourceIdx < Len(sourceLines) \/ e.patchIdx < Len(patchedLines))
                  => MatchAfterEqualScan # MatchResult(0, 0)
    /\ (pc = "computeLineDiff" /\ pc' = "computeLineDiff")
          => /\ ~CursorsAtEnds
             /\ sourceIdx' >= sourceIdx
             /\ patchIdx' >= patchIdx
             /\ sourceIdx' + patchIdx' > sourceIdx + patchIdx
    /\ (pc = "computeLineDiff" /\ pc' # "computeLineDiff") => CursorsAtEnds

\* C24 (Termination): the cursors never exceed the sequence lengths; every
\* iteration of the outer loop strictly advances sourceIdx or patchIdx (the
\* matcher never returns (0,0) behind the equal scan); the loop is left exactly
\* when both cursors are at the ends; and computeLineDiff is eventually left.
C24_Termination ==
    /\ [][LoopAdvances]_vars
    /\ [](CursorsAtEnds => <>(pc # "computeLineDiff"))
    /\ <>(pc # "computeLineDiff")

\* computeLineDiff has returned after more than one iteration of its loop.
C24_Witness ==
    /\ pc = "generateHunks"
    /\ CursorsAtEnds
    /\ Len(operations) >= 4

-----------------------------------------------------------------------------
\* The lines first..first+count-1 (1-based) of a sequence of lines.
LinesFrom(lines, first, count) == [j \in 1..count |-> lines[first + j - 1]]

\* C25 (Hunks agree with the files): for every hunk @@ -A,B +C,D @@ of the
\* result, the ranges A..A+B-1 and C..C+D-1 lie inside the source and the
\* patched sequence, the ' ' and '-' body lines in order are the source lines
\* A..A+B-1 and the ' ' and '+' body lines in order are the patched lines
\* C..C+D-1; in particular the leading context, read from the source, is what
\* the patched sequence holds in front of the change.
C25_HunkConsistent ==
    pc = "done" =>
        \A k \in 1..Len(result) :
            LET hunk == result[k]
                body == HunkBody(hunk)
                n == LeadingContext(body)
            IN /\ HunkA(hunk) + HunkB(hunk) - 1 <= Len(sourceLines)
               /\ HunkC(hunk) + HunkD(hunk) - 1 <= Len(patchedLines)
               /\ LinesOf(SelectSeq(body, IsSourceSideLine))
                     = LinesFrom(sourceLines, HunkA(hunk), HunkB(hunk))
               /\ LinesOf(SelectSeq(body, IsPatchSideLine))
                     = LinesFrom(patchedLines, HunkC(hunk), HunkD(hunk))
               /\ LinesOf(SubSeq(body, 1, n)) = LinesFrom(patchedLines, HunkC(hunk), n)

\* A hunk with leading context whose patched side starts at another line than
\* its source side.
C25_Witness ==
    /\ pc = "done"
    /\ \E k \in 1..Len(result) :
          /\ LeadingContext(HunkBody(result[k])) >= 1
          /\ HunkA(result[k]) # HunkC(result[k])
          /\ HunkC(result[k]) > 1

-----------------------------------------------------------------------------
\* The body lines of all hunks of a diff, in order.
RECURSIVE AllBodies(_)
AllBodies(hunks) ==
    IF Len(hunks) = 0 THEN <<>> ELSE HunkBody(Head(hunks)) \o AllBodies(Tail(hunks))

IsDeleteLine(textLine) == textLine[1] = "-"

IsInsertLine(textLine) == textLine[1] = "+"

IsDeleteOp(op) == op.Type = "delete"

IsInsertOp(op) == op.Type = "insert"

\* C26 (No change lost or duplicated): the '-' lines of all hunks, in order,
\* are exactly the lines of the Delete operations in operation order, and the
\* '+' lines exactly the lines of the Insert operations; at least one hunk is
\* produced if and only if the operation list holds a Delete or an Insert.
C26_ChangesPreserved ==
    pc = "done" =>
        /\ LinesOf(SelectSeq(AllBodies(result), IsDeleteLine))
              = ConcatLines(SelectSeq(operations, IsDeleteOp))
        /\ LinesOf(SelectSeq(AllBodies(result), IsInsertLine))
              = ConcatLines(SelectSeq(operations, IsInsertOp))
        /\ Len(result) >= 1 <=> OpTypes(operations) \cap {"delete", "insert"} # {}

\* Deletes and Inserts are spread over two hunks.
C26_Witness ==
    /\ pc = "done"
    /\ Len(result) = 2
    /\ \A k \in 1..2 : \E j \in 1..Len(HunkBody(result[k])) :
                            HunkBody(result[k])[j][1] \in {"-", "+"}
    /\ {"delete", "insert"} \subseteq OpTypes(operations)

-----------------------------------------------------------------------------
\* The cursors behind the equal scan of the iteration about to run, and what
\* is left of the two sequences there.
AfterEqualScan == DiffEqualPart(sourceLines, patchedLines, DiffState)

RemainingSource == SliceFrom(sourceLines, AfterEqualScan.sourceIdx)

RemainingPatch == SliceFrom(patchedLines, AfterEqualScan.patchIdx)

\* No line among the first 50 remaining source lines equals a line among the
\* first 50 remaining patch lines, and something remains.
NoMatchInWindow ==
    /\ RemainingSource # <<>> \/ RemainingPatch # <<>>
    /\ \A i \in 1..Len(RemainingSource), j \in 1..Len(RemainingPatch) :
          (i <= 50 /\ j <= 50) => RemainingSource[i] # RemainingPatch[j]

\* The two sequences have no line in common.
FullyDisjoint ==
    \A i \in 1..Len(sourceLines), j \in 1..Len(patchedLines) :
        sourceLines[i] # patchedLines[j]

\* The operations a remaining source and a remaining patch are emitted as.
WholeDelete(ss, ps, lines) ==
    IF lines = <<>> THEN <<>>
    ELSE << [Type |-> "delete", SourceStart |-> ss, SourceCount |-> Len(lines),
             PatchStart |-> ps, PatchCount |-> 0, Lines |-> lines] >>

WholeInsert(ss, ps, lines) ==
    IF lines = <<>> THEN <<>>
    ELSE << [Type |-> "insert", SourceStart |-> ss, SourceCount |-> 0,
             PatchStart |-> ps, PatchCount |-> Len(lines), Lines |-> lines] >>

\* C27 (No match in the window): in an iteration of computeLineDiff in which
\* the matcher finds no equal pair inside the window, the operations emitted
\* behind the equal scan are the whole remaining source as one Delete (if
\* non-empty) and the whole remaining patch as one Insert (if non-empty), both
\* cursors are at the ends afterwards, and from then on the operation list
\* does not change: no Equal follows, whatever lies behind the window.  Fully
\* disjoint sequences yield exactly Delete(all source) then Insert(all patch).
C27_NoMatchConsumesAll ==
    [][ /\ (pc = "computeLineDiff" /\ pc' = "computeLineDiff" /\ NoMatchInWindow)
            => /\ operations' =
                     AfterEqualScan.operations
                         \o WholeDelete(AfterEqualScan.sourceIdx, AfterEqualScan.patchIdx,
                                        RemainingSource)
                         \o WholeInsert(Len(sourceLines), AfterEqualScan.patchIdx,
                                        RemainingPatch)
               /\ sourceIdx' = Len(sourceLines)
               /\ patchIdx' = Len(patchedLines)
        /\ (pc = "computeLineDiff" /\ CursorsAtEnds)
            => pc' # "computeLineDiff" /\ operations' = operations
        /\ pc # "computeLineDiff" => operations' = operations
        /\ (pc' # "computeLineDiff" /\ FullyDisjoint)
            => operations' = WholeDelete(0, 0, sourceLines)
                                 \o WholeInsert(Len(sourceLines), 0, patchedLines)
      ]_vars

\* Nothing matched inside the window although the line behind the source's
\* window stands in the patch: the result is one Delete of all 51 source lines
\* and one Insert of the patch.
C27_Witness ==
    /\ pc = "generateHunks"
    /\ Len(sourceLines) = 51
    /\ patchedLines # <<>>
    /\ sourceLines[51] = patchedLines[1]
    /\ Len(operations) = 2
    /\ operations[1].Type = "delete" /\ operations[1].SourceCount = 51
    /\ operations[2].Type = "insert" /\ operations[2].PatchCount = Len(patchedLines)

-----------------------------------------------------------------------------
IsContextLine(textLine) == textLine[1] = " "

\* Lines i and j of a hunk body lie in one changed region: no context line
\* stands at or between them.
SameRegion(body, i, j) ==
    /\ i <= j
    /\ \A k \in i..j : ~IsContextLine(body[k])

\* C28 (Source before target): within each changed region of a hunk of the
\* finished diff, a maximal run of body lines without a context line, no '+'
\* line stands before a '-' line.
C28_DeletesBeforeInserts ==
    pc = "done" =>
        \A h \in 1..Len(result) :
            \A i, j \in 1..Len(HunkBody(result[h])) :
                (SameRegion(HunkBody(result[h]), i, j) /\ IsInsertLine(HunkBody(result[h])[i]))
                    => ~IsDeleteLine(HunkBody(result[h])[j])

\* A hunk holds a changed region of '-' lines followed by '+' lines, with a
\* context line before it and a context line behind it.
C28_Witness ==
    /\ pc = "done"
    /\ \E h \in 1..Len(result) :
          \E b, i, j, c \in 1..Len(HunkBody(result[h])) :
              /\ b < i /\ i < j /\ j < c
              /\ IsContextLine(HunkBody(result[h])[b])
              /\ SameRegion(HunkBody(result[h]), i, j)
              /\ IsDeleteLine(HunkBody(result[h])[i])
              /\ IsInsertLine(HunkBody(result[h])[j])
              /\ IsContextLine(HunkBody(result[h])[c])

-----------------------------------------------------------------------------
IsChangeOp(op) == op.Type \in {"delete", "insert"}

\* The positions of the operations at which a hunk is opened: a change with no
\* change before it, or a change behind an Equal of more than three lines.
HunkOpenings(ops) ==
    { k \in 1..Len(ops) :
        /\ IsChangeOp(ops[k])
        /\ \/ \A m \in 1..(k - 1) : ~IsChangeOp(ops[m])
           \/ ops[k - 1].Type = "equal" /\ Len(ops[k - 1].Lines) > 3 }

EndsWithChange(ops) == ops # <<>> /\ IsChangeOp(ops[Len(ops)])

\* C29 (Final hunk): when generateHunks returns on an operation list that ends
\* with a Delete or Insert, a hunk is in progress and the returned list is the
\* hunks emitted so far followed by that hunk: its header from the running
\* counts, then the body written so far, whose last line is a change line (no
\* trailing context).  In every return the number of hunks returned is the
\* number of hunks opened.
C29_FinalHunk ==
    [][ pc' = "done" =>
          /\ EndsWithChange(operations) =>
                /\ hunkState.inHunk
                /\ result' = Append(hunkState.hunks,
                                    <<HunkHeader(hunkState.hunkSourceStart,
                                                 hunkState.hunkSourceCount,
                                                 hunkState.hunkPatchStart,
                                                 hunkState.hunkPatchCount)>>
                                        \o hunkState.currentHunk)
                /\ TrailingContext(HunkBody(result'[Len(result')])) = 0
          /\ Len(result') = Cardinality(HunkOpenings(operations))
      ]_vars

\* The list ends with a change behind a long Equal: an earlier hunk was closed
\* by the Equal and the final one, opened with leading context, is emitted by
\* the final block.
C29_Witness ==
    /\ pc = "done"
    /\ EndsWithChange(operations)
    /\ Len(result) = 2
    /\ LeadingContext(HunkBody(result[2])) = 3
    /\ TrailingContext(HunkBody(result[2])) = 0

-----------------------------------------------------------------------------
\* The single Equal operation that covers all of lines from offset 0.
WholeEqual(lines) ==
    [Type |-> "equal", SourceStart |-> 0, SourceCount |-> Len(lines),
     PatchStart |-> 0, PatchCount |-> Len(lines), Lines |-> lines]

\* C30 (Identical sequences): for two identical non-empty line sequences
\* computeLineDiff returns exactly one operation, an Equal covering all lines,
\* and generateHunks on that list returns no hunks.
C30_IdenticalSequences ==
    (sourceLines = patchedLines /\ sourceLines # <<>>) =>
        /\ pc \in {"generateHunks", "done"} => operations = <<WholeEqual(sourceLines)>>
        /\ pc = "generateHunks" => hunkState.hunks = <<>> /\ ~hunkState.inHunk
        /\ pc = "done" => result = <<>>

\* Both functions have returned on two identical sequences longer than the
\* context of a hunk.
C30_Witness ==
    /\ pc = "done"
    /\ sourceLines = patchedLines
    /\ Len(sourceLines) > contextLines
    /\ Len(operations) = 1
    /\ result = <<>>

====
